---- MODULE Spec2Model ----
(***************************************************************************)
(* dirsize (final variant, v1.1): main and FolderSize.                     *)
(*                                                                         *)
(* main walks the path arguments; for each it calls FolderSize(arg, true), *)
(* sorts the first-level items with sort.Sort and prints them.             *)
(* FolderSize is a depth-first recursion over the file system.             *)
(*                                                                         *)
(* Strings are sequences of byte values.  A file system is a function from *)
(* the names of the nodes that exist to their attributes.                  *)
(***************************************************************************)
EXTENDS Integers, Sequences, FiniteSets

\* largest size in bytes of a non-directory node
MaxSize == 1
\* largest number of command line arguments
MaxArgs == 2

(***************************************************************************)
(* Strings                                                                 *)
(***************************************************************************)
\* "-"
Dash == <<45>>
\* "." and ".."
Dot == <<46>>
DotDot == <<46, 46>>
\* "p"
LetterP == <<112>>

\* strings.HasPrefix(s, prefix)
HasPrefix(s, prefix) ==
    /\ Len(s) >= Len(prefix)
    /\ SubSeq(s, 1, Len(prefix)) = prefix

RECURSIVE CompareFrom(_, _, _)
CompareFrom(a, b, k) ==
    IF k > Len(a) /\ k > Len(b) THEN 0
    ELSE IF k > Len(a) THEN -1
    ELSE IF k > Len(b) THEN 1
    ELSE IF a[k] < b[k] THEN -1
    ELSE IF a[k] > b[k] THEN 1
    ELSE CompareFrom(a, b, k + 1)

\* strings.Compare(a, b): byte-wise lexicographic, -1, 0 or +1
Compare(a, b) == CompareFrom(a, b, 1)

(***************************************************************************)
(* The file system                                                         *)
(***************************************************************************)
\* the directory named on the command line, "d"
RootName == <<100>>
\* the names a node below the root can have: "a", "ab", "b"
ChildNames == {<<97>>, <<97, 98>>, <<98>>}
\* a path that does not exist, "z", and an argument that looks like an
\* option, "-x"
MissingName == <<122>>
OptionArg == <<45, 120>>

Sizes == 0..MaxSize

\* what os.Open, File.Stat and ioutil.ReadDir do on a node:
\*   "none"        all three succeed
\*   "open_perm"   os.Open fails with a permission error
\*   "open_other"  os.Open fails with another error (ENXIO, EMFILE, ...)
\*   "stat"        File.Stat fails
\*   "list"        ioutil.ReadDir fails
DirAttrs ==
    [kind : {"dir"}, size : {0},
     fault : {"none", "open_perm", "open_other", "stat", "list"}]
FileAttrs ==
    [kind : {"file"}, size : Sizes, fault : {"none", "open_perm", "open_other"}]
PipeAttrs == [kind : {"pipe"}, size : Sizes, fault : {"none"}]
SocketAttrs == [kind : {"socket"}, size : Sizes, fault : {"open_other"}]
DeviceAttrs == [kind : {"device"}, size : Sizes, fault : {"none", "open_perm"}]

ChildAttrs == DirAttrs \cup FileAttrs \cup PipeAttrs \cup SocketAttrs \cup DeviceAttrs
RootAttrs ==
    DirAttrs \cup [kind : {"file"}, size : Sizes, fault : {"none", "open_perm", "stat"}]

\* the first character of FileMode.String() decides "pipe file" in FolderSize
ModeString(kind) ==
    CASE kind = "dir" -> <<100>>
      [] kind = "file" -> <<45>>
      [] kind = "pipe" -> <<112>>
      [] kind = "socket" -> <<83>>
      [] kind = "device" -> <<68>>

RECURSIVE ReachesRoot(_, _, _)
ReachesRoot(parent, c, fuel) ==
    IF c = RootName THEN TRUE
    ELSE IF fuel = 0 THEN FALSE
    ELSE ReachesRoot(parent, parent[c], fuel - 1)

\* the ways the children S can hang below the root: parent links that lead
\* to the root
Shapes(S) ==
    {par \in [S -> S \cup {RootName}] :
        \A c \in S : ReachesRoot(par, c, Cardinality(S))}

\* the trees over the children S: every node that has a child is a directory
TreesOver(S, rootAttrs, attrSet) ==
    { [n \in S \cup {RootName} |->
          IF n = RootName
          THEN [kind |-> rootAttrs.kind, size |-> rootAttrs.size,
                fault |-> rootAttrs.fault, parent |-> RootName]
          ELSE [kind |-> pa[2][n].kind, size |-> pa[2][n].size,
                fault |-> pa[2][n].fault, parent |-> pa[1][n]]] :
        pa \in UNION { {par} \X {at \in [S -> attrSet] :
                                    \A c \in S : par[c] # RootName
                                                   => at[par[c]].kind = "dir"} :
                       par \in Shapes(S) } }

\* a root that is not a directory has nothing below it
Trees(attrSet, rootSet) ==
    UNION { TreesOver(S, r, attrSet) :
            <<S, r>> \in {sr \in (SUBSET ChildNames) \X rootSet :
                            sr[2].kind # "dir" => sr[1] = {}} }

(***************************************************************************)
(* The calls FolderSize makes on the file system                           *)
(***************************************************************************)
\* the error of os.Open(name); "nil" when it succeeds
OpenErr(fs, name) ==
    CASE fs[name].fault = "open_perm" -> "EACCES"
      [] fs[name].fault = "open_other" -> "EOTHER"
      [] OTHER -> "nil"

\* os.IsPermission(err)
IsPermission(err) == err = "EACCES"

\* the error of f.Stat()
StatErr(fs, name) == IF fs[name].fault = "stat" THEN "stat" ELSE "nil"

\* the error of ioutil.ReadDir(name)
ReadDirErr(fs, name) ==
    IF fs[name].fault = "list" THEN "read directory error" ELSE "nil"

RECURSIVE SortedByName(_)
SortedByName(S) ==
    IF S = {} THEN <<>>
    ELSE LET first == CHOOSE x \in S : \A y \in S : Compare(x, y) <= 0
         IN <<first>> \o SortedByName(S \ {first})

\* the entries ioutil.ReadDir(dirname) lists: the children, sorted by name
ReadDir(fs, dirname) ==
    SortedByName({c \in DOMAIN fs : c # RootName /\ fs[c].parent = dirname})

(***************************************************************************)
(* FolderSize                                                              *)
(***************************************************************************)
\* Item{Key, Value, IsDir}
Item(key, value, isDir) == [Key |-> key, Value |-> value, IsDir |-> isDir]

\* what a call returns (size, info, err) and what it did on the way: the
\* lines written to stderr (warn) and the listed children its loops reached
\* (seen)
Result(size, info, err, warn, seen) ==
    [size |-> size, info |-> info, err |-> err, warn |-> warn, seen |-> seen]

\* file.Name() == "." || file.Name() == ".."
IsDotEntry(name) == name = Dot \/ name = DotDot

\* as IsPipeMode, without the check
IsPipeModeNever(kind) == FALSE

\* strings.HasPrefix(mode.String(), "p")
IsPipeMode(kind) == HasPrefix(ModeString(kind), LetterP)

\* as FileOpenDenied, without the check
FileOpenDeniedNever(err) == FALSE

\* err != nil && os.IsPermission(err) on the file's os.Open
FileOpenDenied(err) == err # "nil" /\ IsPermission(err)

\* as AddItem, appending the Item at every level
AddItemEveryLevel(acc, firstLevel, name, size1, isDir) ==
    [acc EXCEPT !.size = @ + size1,
                !.info = Append(@, Item(name, size1, isDir))]

\* as AddItem, with the Item of the file branch
AddItemAsFile(acc, firstLevel, name, size1, isDir) ==
    [acc EXCEPT !.size = @ + size1,
                !.info = IF firstLevel THEN Append(@, Item(name, size1, FALSE))
                         ELSE @]

\* as AddItem, with the append before a size1 of 0 is told from no size
AddItemNonEmptyOnly(acc, firstLevel, name, size1, isDir) ==
    [acc EXCEPT !.size = @ + size1,
                !.info = IF firstLevel /\ size1 > 0
                         THEN Append(@, Item(name, size1, isDir))
                         ELSE @]

\* as AddItem, without "size += size1" for a directory
AddItemFilesOnly(acc, firstLevel, name, size1, isDir) ==
    [acc EXCEPT !.size = IF isDir THEN @ ELSE @ + size1,
                !.info = IF firstLevel THEN Append(@, Item(name, size1, isDir))
                         ELSE @]

\* size += size1; if firstLevel { info = append(info, Item{...}) }
AddItem(acc, firstLevel, name, size1, isDir) ==
    [acc EXCEPT !.size = @ + size1,
                !.info = IF firstLevel THEN Append(@, Item(name, size1, isDir))
                         ELSE @]

\* a line on stderr, then continue
Skip(acc, reason, name) == [acc EXCEPT !.warn = Append(@, <<reason, name>>)]

RECURSIVE FolderSize(_, _, _)
RECURSIVE RangeFiles(_, _, _, _, _)

\* one iteration of "for _, file := range files" on files[k]
LoopBody(fs, file, firstLevel, acc) ==
    IF IsDotEntry(file) THEN acc
    ELSE IF fs[file].kind = "dir"
    THEN LET r == FolderSize(fs, file, FALSE)
             here == [acc EXCEPT !.warn = @ \o r.warn,
                                 !.seen = @ \cup {file} \cup r.seen]
         IN IF r.err # "nil"
            THEN Skip(here, "read permission denied (dir)", file)
            ELSE AddItem(here, firstLevel, file, r.size, TRUE)
    ELSE LET here == [acc EXCEPT !.seen = @ \cup {file}]
         IN IF IsPipeMode(fs[file].kind)
            THEN Skip(here, "pipe file ignored", file)
            ELSE IF FileOpenDenied(OpenErr(fs, file))
            THEN Skip(here, "read permission denied (file)", file)
            ELSE AddItem(here, firstLevel, file, fs[file].size, FALSE)

\* the loop over files[k..]
RangeFiles(fs, files, firstLevel, k, acc) ==
    IF k > Len(files) THEN acc
    ELSE RangeFiles(fs, files, firstLevel, k + 1,
                    LoopBody(fs, files[k], firstLevel, acc))

FolderSize(fs, dirname, firstLevel) ==
    IF OpenErr(fs, dirname) # "nil"
    THEN Result(0, <<>>, OpenErr(fs, dirname), <<>>, {})
    ELSE IF StatErr(fs, dirname) # "nil"
    THEN Result(0, <<>>, StatErr(fs, dirname), <<>>, {})
    ELSE IF fs[dirname].kind # "dir"
    THEN Result(fs[dirname].size,
                IF firstLevel THEN <<Item(dirname, fs[dirname].size, FALSE)>>
                ELSE <<>>,
                "nil", <<>>, {})
    ELSE IF ReadDirErr(fs, dirname) # "nil"
    THEN Result(0, <<>>, ReadDirErr(fs, dirname), <<>>, {})
    ELSE RangeFiles(fs, ReadDir(fs, dirname), firstLevel, 1,
                    Result(0, <<>>, "nil", <<>>, {}))

(***************************************************************************)
(* Sorting the items                                                       *)
(***************************************************************************)
\* ByKey.Less
ByKeyLess(x, y) == Compare(x.Key, y.Key) < 0
\* ByValue.Less
ByValueLess(x, y) == x.Value < y.Value
\* ReverseByKey.Less
ReverseByKeyLess(x, y) == Compare(x.Key, y.Key) > 0
\* as ReverseByValue.Less, with the comparison of ByValue.Less
ReverseByValueLessAscending(x, y) == x.Value < y.Value

\* ReverseByValue.Less
ReverseByValueLess(x, y) == x.Value > y.Value

\* as SortLess, sorting by size whatever -a says
SortLessBySizeOnly(byAlphabet, reverse, x, y) ==
    IF ~reverse THEN ReverseByValueLess(x, y) ELSE ByValueLess(x, y)

\* the Less of the sort.Interface main hands to sort.Sort
SortLess(byAlphabet, reverse, x, y) ==
    IF ~reverse
    THEN IF byAlphabet THEN ReverseByKeyLess(x, y) ELSE ReverseByValueLess(x, y)
    ELSE IF byAlphabet THEN ByKeyLess(x, y) ELSE ByValueLess(x, y)

Permutations(n) ==
    {p \in [1..n -> 1..n] : \A a, b \in 1..n : p[a] = p[b] => a = b}

\* sort.Sort(data) is not stable: it leaves data in any order in which no
\* element is Less than one before it
SortOutcomes(byAlphabet, reverse, data) ==
    { out \in { [k \in 1..Len(data) |-> data[p[k]]] : p \in Permutations(Len(data)) } :
        \A a, b \in 1..Len(out) :
            a < b => ~SortLess(byAlphabet, reverse, out[b], out[a]) }

(***************************************************************************)
(* main                                                                    *)
(***************************************************************************)
VARIABLES
    fs,             \* the file system
    sortByAlphabet, \* flag -a
    sortReverse,    \* flag -r
    dirs,           \* flag.Args()
    i,              \* index of the argument the loop is at
    pc,             \* where main is: "start", "loop", "sort", "print", "done"
    size, info, err,\* what FolderSize(arg, true) returned
    listing,        \* info as FolderSize returned it, before sort.Sort
    seen,           \* the listed children the loops of FolderSize reached
    stderr,         \* the lines written to os.Stderr
    stdout          \* the lines written to os.Stdout

\* the state of DirSize, the variant that walks the tree and hands every
\* entry to a goroutine (dirsize_speed_up_failed_2.go)
VARIABLES
    tokenCap,       \* n, the capacity of the tokens channel
    tokens,         \* the number of values in the tokens channel
    wg,             \* the counter of the sync.WaitGroup
    walk,           \* the entries filepath.Walk has still to visit
    walkPc,         \* where DirSize is
    task,           \* the goroutines spawned, in the order of the walk
    sizes,          \* the map of the bucket totals
    overlap,        \* the buckets written with a total read too early
    ret             \* what DirSize returned

\* the state of the variant with a goroutine for every first-level
\* subdirectory (dirsize_speed_up_failed_1.go)
VARIABLES
    call,           \* the invocations of FolderSize, by directory
    chan,           \* the channel c each invocation made, by directory
    msg,            \* the channel msg of main
    received        \* what main received from msg

mainVars == <<sortByAlphabet, sortReverse, dirs, i, pc, size, info, err,
              listing, seen, stderr, stdout>>
dsVars == <<tokenCap, tokens, wg, walk, walkPc, task, sizes, overlap, ret>>
goVars == <<call, chan, msg, received>>

vars == <<fs, mainVars, dsVars, goVars>>

\* os.Stat(arg) fails
StatFails(arg) == arg \notin DOMAIN fs

\* if len(dirs) == 0 { dirs = append(dirs, "./") }; the working directory is
\* the root
Start ==
    /\ pc = "start"
    /\ dirs' = IF Len(dirs) = 0 THEN <<RootName>> ELSE dirs
    /\ pc' = "loop"
    /\ UNCHANGED <<fs, sortByAlphabet, sortReverse, i, size, info, err,
                   listing, seen, stderr, stdout>>
    /\ UNCHANGED <<dsVars, goVars>>

\* if strings.HasPrefix(arg, "-") { continue }
SkipOption ==
    /\ pc = "loop"
    /\ i <= Len(dirs)
    /\ HasPrefix(dirs[i], Dash)
    /\ i' = i + 1
    /\ UNCHANGED <<fs, sortByAlphabet, sortReverse, dirs, pc, size, info, err,
                   listing, seen, stderr, stdout>>
    /\ UNCHANGED <<dsVars, goVars>>

\* as StatError, leaving the loop instead of continuing
StatErrorLeaves ==
    /\ pc = "loop"
    /\ i <= Len(dirs)
    /\ ~HasPrefix(dirs[i], Dash)
    /\ StatFails(dirs[i])
    /\ stderr' = Append(stderr, <<"stat", dirs[i]>>)
    /\ pc' = "done"
    /\ UNCHANGED <<fs, sortByAlphabet, sortReverse, dirs, i, size, info, err,
                   listing, seen, stdout>>
    /\ UNCHANGED <<dsVars, goVars>>

\* _, err := os.Stat(arg); if err != nil { Fprintln(os.Stderr, err); continue }
StatError ==
    /\ pc = "loop"
    /\ i <= Len(dirs)
    /\ ~HasPrefix(dirs[i], Dash)
    /\ StatFails(dirs[i])
    /\ stderr' = Append(stderr, <<"stat", dirs[i]>>)
    /\ i' = i + 1
    /\ UNCHANGED <<fs, sortByAlphabet, sortReverse, dirs, pc, size, info, err,
                   listing, seen, stdout>>
    /\ UNCHANGED <<dsVars, goVars>>

\* as CallFolderSize, with a continue after the error is reported
CallFolderSizeSkipsFailed ==
    /\ pc = "loop"
    /\ i <= Len(dirs)
    /\ ~HasPrefix(dirs[i], Dash)
    /\ ~StatFails(dirs[i])
    /\ LET r == FolderSize(fs, dirs[i], TRUE)
       IN /\ size' = r.size
          /\ info' = r.info
          /\ listing' = r.info
          /\ err' = r.err
          /\ seen' = r.seen
          /\ stderr' = IF r.err # "nil"
                       THEN Append(stderr \o r.warn, <<r.err, dirs[i]>>)
                       ELSE stderr \o r.warn
          /\ pc' = IF r.err # "nil" THEN "loop" ELSE "sort"
          /\ i' = IF r.err # "nil" THEN i + 1 ELSE i
    /\ UNCHANGED <<fs, sortByAlphabet, sortReverse, dirs, stdout>>
    /\ UNCHANGED <<dsVars, goVars>>

\* size, info, err := FolderSize(arg, true);
\* if err != nil { Fprintln(os.Stderr, err) }
CallFolderSize ==
    /\ pc = "loop"
    /\ i <= Len(dirs)
    /\ ~HasPrefix(dirs[i], Dash)
    /\ ~StatFails(dirs[i])
    /\ LET r == FolderSize(fs, dirs[i], TRUE)
       IN /\ size' = r.size
          /\ info' = r.info
          /\ listing' = r.info
          /\ err' = r.err
          /\ seen' = r.seen
          /\ stderr' = IF r.err # "nil"
                       THEN Append(stderr \o r.warn, <<r.err, dirs[i]>>)
                       ELSE stderr \o r.warn
    /\ pc' = "sort"
    /\ UNCHANGED <<fs, sortByAlphabet, sortReverse, dirs, i, stdout>>
    /\ UNCHANGED <<dsVars, goVars>>

\* sort.Sort(ReverseByKey{info}) / ReverseByValue / ByKey / ByValue
SortInfo ==
    /\ pc = "sort"
    /\ info' \in SortOutcomes(sortByAlphabet, sortReverse, info)
    /\ pc' = "print"
    /\ UNCHANGED <<fs, sortByAlphabet, sortReverse, dirs, i, size, err,
                   listing, seen, stderr, stdout>>
    /\ UNCHANGED <<dsVars, goVars>>

\* the header line "<arg>: <size>" and one line per item
PrintResult ==
    /\ pc = "print"
    /\ stdout' = stdout \o <<<<"header", dirs[i], size>>>>
                        \o [k \in 1..Len(info) |->
                              <<"item", info[k].Key, info[k].Value, info[k].IsDir>>]
    /\ i' = i + 1
    /\ pc' = "loop"
    /\ UNCHANGED <<fs, sortByAlphabet, sortReverse, dirs, size, info, err,
                   listing, seen, stderr>>
    /\ UNCHANGED <<dsVars, goVars>>

\* the range over dirs is exhausted: main returns
Exit ==
    /\ pc = "loop"
    /\ i > Len(dirs)
    /\ pc' = "done"
    /\ UNCHANGED <<fs, sortByAlphabet, sortReverse, dirs, i, size, info, err,
                   listing, seen, stderr, stdout>>
    /\ UNCHANGED <<dsVars, goVars>>

Next ==
    \/ Start
    \/ SkipOption
    \/ StatError
    \/ CallFolderSize
    \/ SortInfo
    \/ PrintResult
    \/ Exit

RECURSIVE SeqsUpTo(_, _)
SeqsUpTo(S, n) ==
    IF n = 0 THEN {<<>>}
    ELSE LET shorter == SeqsUpTo(S, n - 1)
         IN shorter \cup {Append(q, x) : <<q, x>> \in shorter \X S}

\* the arguments main is given
ArgNames == {RootName, MissingName, OptionArg}

\* the trees main is run on: readable files and directories below a root
\* that is a directory (that may fail to open or to list) or a file
ReadableAttrs ==
    {at \in DirAttrs \cup FileAttrs : at.fault = "none"}
MainRootAttrs ==
    {at \in RootAttrs : at.fault \in {"none", "open_perm", "list"}}

\* DirSize is not running
DirSizeIdle ==
    /\ tokenCap = 0
    /\ tokens = 0
    /\ wg = 0
    /\ walk = <<>>
    /\ walkPc = "idle"
    /\ task = <<>>
    /\ sizes = <<>>
    /\ overlap = {}
    /\ ret = <<>>

\* the variant with goroutines is not running
GoIdle ==
    /\ call = <<>>
    /\ chan = <<>>
    /\ msg = <<>>
    /\ received = <<>>

\* main is at its first argument and has printed nothing
MainLocals ==
    /\ i = 1
    /\ size = 0
    /\ info = <<>>
    /\ listing = <<>>
    /\ err = "nil"
    /\ seen = {}
    /\ stderr = <<>>
    /\ stdout = <<>>

InitLocals == MainLocals /\ DirSizeIdle /\ GoIdle

Init ==
    /\ fs \in Trees(ReadableAttrs, MainRootAttrs)
    /\ sortByAlphabet \in BOOLEAN
    /\ sortReverse \in BOOLEAN
    /\ dirs \in SeqsUpTo(ArgNames, MaxArgs)
    /\ pc = "start"
    /\ InitLocals

Spec == Init /\ [][Next]_vars

\* one call FolderSize(root, true) on every tree: files, directories, pipes,
\* sockets and devices, with every failure of os.Open, Stat and ReadDir
InitFS ==
    /\ fs \in Trees(ChildAttrs, ReadableAttrs) \cup Trees(ReadableAttrs, RootAttrs)
    /\ sortByAlphabet = FALSE
    /\ sortReverse = FALSE
    /\ dirs = <<RootName>>
    /\ pc = "loop"
    /\ InitLocals

NextFS == CallFolderSize

SpecFS == InitFS /\ [][NextFS]_vars

(***************************************************************************)
(* What the claims speak of, said without the recursion of FolderSize      *)
(***************************************************************************)
RECURSIVE IsBelow(_, _, _)
\* node c lies strictly below node d
IsBelow(t, c, d) ==
    IF c = RootName THEN FALSE
    ELSE t[c].parent = d \/ IsBelow(t, t[c].parent, d)

RECURSIVE SumSizes(_, _)
SumSizes(t, S) ==
    IF S = {} THEN 0
    ELSE LET c == CHOOSE x \in S : TRUE
         IN t[c].size + SumSizes(t, S \ {c})

ChildrenOf(t, d) == {c \in DOMAIN t : c # RootName /\ t[c].parent = d}

RegularFilesBelow(t, d) == {c \in DOMAIN t : t[c].kind = "file" /\ IsBelow(t, c, d)}

\* every node is a regular file or a directory and nothing fails on it
FullyReadable(t) ==
    \A n \in DOMAIN t : t[n].kind \in {"file", "dir"} /\ t[n].fault = "none"

\* the loop skips the child: a directory whose call fails, a named pipe, a
\* file whose os.Open is denied
IsSkipped(t, c) ==
    \/ t[c].kind = "dir" /\ t[c].fault # "none"
    \/ t[c].kind = "pipe"
    \/ t[c].kind # "dir" /\ t[c].fault = "open_perm"

\* the nodes below d whose size is counted: not skipped, and below no skipped
\* directory
CountedBelow(t, d) ==
    {c \in DOMAIN t :
        /\ IsBelow(t, c, d)
        /\ t[c].kind # "dir"
        /\ ~IsSkipped(t, c)
        /\ \A e \in DOMAIN t : IsBelow(t, c, e) /\ IsBelow(t, e, d) => ~IsSkipped(t, e)}

\* FolderSize(root, true) has returned
Returned == pc = "sort" /\ dirs[i] = RootName

RootIsDir == fs[RootName].kind = "dir"

Keys(items) == {items[k].Key : k \in 1..Len(items)}

(***************************************************************************)
(* C1                                                                      *)
(***************************************************************************)
\* C1: on a tree of readable regular files and readable directories below a
\* root directory, FolderSize(root, true) returns a nil error and the sum of
\* the sizes of the regular files at every depth.
C1_ExactTotal ==
    (Returned /\ RootIsDir /\ FullyReadable(fs))
        => /\ err = "nil"
           /\ size = SumSizes(fs, RegularFilesBelow(fs, RootName))

\* a file directly below the root and a file one directory deeper, both counted
C1_Witness ==
    /\ Returned /\ RootIsDir /\ FullyReadable(fs)
    /\ \E f, g \in RegularFilesBelow(fs, RootName) :
          /\ fs[f].parent = RootName /\ fs[g].parent # RootName
          /\ fs[f].size > 0 /\ fs[g].size > 0
    /\ size >= 2
(***************************************************************************)
(* C2                                                                      *)
(***************************************************************************)
\* the item the loop appends for a child that is not skipped
ItemOf(t, c) ==
    IF t[c].kind = "dir"
    THEN Item(c, SumSizes(t, CountedBelow(t, c)), TRUE)
    ELSE Item(c, t[c].size, FALSE)

RECURSIVE ItemsOf(_, _, _)
ItemsOf(t, names, k) ==
    IF k > Len(names) THEN <<>>
    ELSE (IF IsSkipped(t, names[k]) THEN <<>> ELSE <<ItemOf(t, names[k])>>)
            \o ItemsOf(t, names, k + 1)

RECURSIVE AllItemsOf(_, _, _)
AllItemsOf(t, names, k) ==
    IF k > Len(names) THEN <<>>
    ELSE <<ItemOf(t, names[k])>> \o AllItemsOf(t, names, k + 1)

\* C2 as stated: when the root is a directory and the call succeeds, info
\* holds exactly one Item per direct child of the root, in listing order.
C2_OneItemPerChild ==
    (Returned /\ RootIsDir /\ err = "nil")
        => info = AllItemsOf(fs, ReadDir(fs, RootName), 1)

\* C2: when the root is a directory that opens and lists, info holds exactly
\* one Item per direct child of the root that the loop does not skip (a
\* directory whose call fails, a named pipe and a file whose open is denied
\* are skipped), in listing order, with the child's name, its counted subtree
\* total or its file size, and its directory flag; no Item names a node
\* deeper than the first level, and every call with firstLevel = false
\* returns no items.
C2_ItemsOfFirstLevel ==
    (Returned /\ RootIsDir /\ err = "nil")
        => /\ info = ItemsOf(fs, ReadDir(fs, RootName), 1)
           /\ Keys(info) \subseteq ChildrenOf(fs, RootName)
           /\ \A c \in DOMAIN fs : FolderSize(fs, c, FALSE).info = <<>>

\* two children are listed and one of them, a directory, holds a file: two
\* items, none for the file inside
C2_Witness ==
    /\ Returned /\ RootIsDir /\ err = "nil"
    /\ Len(info) = 2
    /\ \E k \in 1..2 : info[k].IsDir /\ info[k].Value > 0
    /\ \E k \in 1..2 : ~info[k].IsDir
    /\ Cardinality(DOMAIN fs) = 4

(***************************************************************************)
(* C3                                                                      *)
(***************************************************************************)
\* the tree is N empty, readable directories below the root directory
EmptyDirsOnly(t) == \A n \in DOMAIN t : t[n].kind = "dir" /\ t[n].fault = "none"

AllEmptyDirItems(items) ==
    \A k \in 1..Len(items) : items[k].Value = 0 /\ items[k].IsDir

\* C3 as stated: for N empty subdirectories in any arrangement the call
\* returns total 0 and exactly N items, each of size 0 and a directory.
C3_NItems ==
    (Returned /\ EmptyDirsOnly(fs))
        => /\ size = 0
           /\ Len(info) = Cardinality(DOMAIN fs \ {RootName})
           /\ AllEmptyDirItems(info)

\* C3: for N empty subdirectories in any arrangement the call returns a nil
\* error, total 0 and exactly one item per directory directly below the
\* root, each of size 0 and a directory: N items only when all N are
\* siblings below the root, fewer when some are nested.
C3_ItemsOfDirectChildren ==
    (Returned /\ EmptyDirsOnly(fs))
        => /\ err = "nil"
           /\ size = 0
           /\ Len(info) = Cardinality(ChildrenOf(fs, RootName))
           /\ Keys(info) = ChildrenOf(fs, RootName)
           /\ AllEmptyDirItems(info)

\* three empty directories nested in one another: one item
C3_Witness ==
    /\ Returned /\ EmptyDirsOnly(fs)
    /\ Cardinality(DOMAIN fs) = 4
    /\ Cardinality(ChildrenOf(fs, RootName)) = 1
    /\ \E c \in DOMAIN fs : fs[c].parent \notin {RootName} \cup ChildrenOf(fs, RootName)
    /\ Len(info) = 1 /\ info[1].IsDir

(***************************************************************************)
(* C4                                                                      *)
(***************************************************************************)
\* u is the one entry that cannot be opened for reading: a subdirectory whose
\* os.Open fails or a regular file whose os.Open is denied; every other node
\* is a readable regular file or directory
OnlyUnreadable(t, u) ==
    /\ u # RootName
    /\ \/ t[u].kind = "dir" /\ t[u].fault \in {"open_perm", "open_other"}
       \/ t[u].kind = "file" /\ t[u].fault = "open_perm"
    /\ \A n \in DOMAIN t \ {u} : t[n].kind \in {"file", "dir"} /\ t[n].fault = "none"

\* what the unreadable entry holds
SizeLost(t, u) ==
    IF t[u].kind = "dir" THEN SumSizes(t, RegularFilesBelow(t, u)) ELSE t[u].size

Lines(log) == {log[k] : k \in 1..Len(log)}

Without(t, kinds) == [n \in {m \in DOMAIN t : t[m].kind \notin kinds} |-> t[n]]

\* the children of `kinds` are skipped with a warning: no item, nothing
\* added to the total, the siblings still reached
SkippedWithWarning(kinds) ==
    /\ err = "nil"
    /\ \A c \in seen :
          fs[c].kind \in kinds
             => /\ c \notin Keys(info)
                /\ \E l \in Lines(stderr) : l[2] = c
                /\ ChildrenOf(fs, fs[c].parent) \subseteq seen
    /\ size = FolderSize(Without(fs, kinds), RootName, TRUE).size
    /\ info = FolderSize(Without(fs, kinds), RootName, TRUE).info

\* C5 as stated: every named pipe, socket or device is skipped with a
\* warning.
C5_SpecialFilesSkipped ==
    (Returned /\ RootIsDir /\ fs[RootName].fault = "none")
        => SkippedWithWarning({"pipe", "socket", "device"})

\* C5: every named pipe is skipped with a warning: it adds nothing to the
\* total, gets no item, causes no error return and its siblings are still
\* processed.  A socket or a device is not skipped: unless its os.Open is
\* denied, its size is added and, at the first level, it gets an item as a
\* regular file does.
C5_PipesSkipped ==
    (Returned /\ RootIsDir /\ fs[RootName].fault = "none")
        => /\ SkippedWithWarning({"pipe"})
           /\ \A c \in ChildrenOf(fs, RootName) :
                 (fs[c].kind \in {"socket", "device"} /\ fs[c].fault # "open_perm")
                    => \E k \in 1..Len(info) : info[k] = Item(c, fs[c].size, FALSE)

\* a named pipe that reports a size, listed before a sibling that is counted
C5_Witness ==
    /\ Returned /\ RootIsDir /\ err = "nil"
    /\ \E p, c \in seen :
          /\ fs[p].kind = "pipe" /\ fs[p].size > 0
          /\ fs[c].parent = fs[p].parent /\ Compare(p, c) < 0
          /\ c \in Keys(info) /\ fs[c].size > 0
          /\ size = fs[c].size
          /\ \E l \in Lines(stderr) : l = <<"pipe file ignored", p>>

(***************************************************************************)
(* C6                                                                      *)
(***************************************************************************)
IsOption(arg) == HasPrefix(arg, Dash)

\* the arguments the loop has gone through
Handled == SubSeq(dirs, 1, i - 1)

\* the path arguments among args that do not exist, and those that do
MissingOf(args) ==
    LET Test(arg) == ~IsOption(arg) /\ arg \notin DOMAIN fs
    IN SelectSeq(args, Test)
ExistingOf(args) ==
    LET Test(arg) == ~IsOption(arg) /\ arg \in DOMAIN fs
    IN SelectSeq(args, Test)

\* the arguments of the lines of one kind in a log
ArgsOfLines(log, kind) ==
    LET Test(l) == l[1] = kind
        picked == SelectSeq(log, Test)
    IN [k \in 1..Len(picked) |-> picked[k][2]]

\* C6: main attempts every path argument (an argument that does not begin
\* with "-") in order: whenever the loop is between two arguments, each
\* missing argument it went through has one error line and each existing one
\* has one header line, in the order of the arguments; a missing argument
\* has no header line and no item line; sort.Sort always has an outcome to
\* go on with, and the loop ends only after the last argument.
C6_EveryArgumentAttempted ==
    /\ pc \in {"loop", "done"}
          => /\ ArgsOfLines(stderr, "stat") = MissingOf(Handled)
             /\ ArgsOfLines(stdout, "header") = ExistingOf(Handled)
             /\ \A l \in Lines(stdout) : l[2] \in DOMAIN fs
    /\ pc = "sort" => SortOutcomes(sortByAlphabet, sortReverse, info) # {}
    /\ pc = "done" => i = Len(dirs) + 1

\* a missing argument before an existing one: an error line for the first, a
\* header line for the second
C6_Witness ==
    /\ pc = "done"
    /\ dirs = <<MissingName, RootName>>
    /\ stderr = <<<<"stat", MissingName>>>>
    /\ Len(stdout) >= 2
    /\ stdout[1][1] = "header" /\ stdout[1][2] = RootName

(***************************************************************************)
(* C7                                                                      *)
(***************************************************************************)
\* FolderSize(RootName, true) returns an error
RootFails == fs[RootName].fault # "none"

\* C7 as stated: an existing argument on which FolderSize returns an error
\* is skipped: no header line and no item line is printed for it.
C7_FailedArgumentSkipped ==
    (pc \in {"loop", "done"} /\ RootFails) => stdout = <<>>

\* C7: for an existing argument on which FolderSize returns an error, main
\* reports the error and then still prints the header line, with size 0, and
\* no item line; it continues with the remaining arguments.
C7_FailedArgumentPrintedEmpty ==
    (pc \in {"loop", "done"} /\ RootFails)
        => /\ stdout = [k \in 1..Len(ExistingOf(Handled)) |-> <<"header", RootName, 0>>]
           /\ Len(ArgsOfLines(stderr, "stat")) + Len(ExistingOf(Handled)) = Len(stderr)
           /\ \A l \in Lines(stderr) :
                 l[1] # "stat" => l = <<OpenErr(fs, RootName), RootName>>
                                  \/ l = <<ReadDirErr(fs, RootName), RootName>>
           /\ pc = "done" => i = Len(dirs) + 1

\* a directory with children that cannot be listed, given twice: two error
\* lines and two header lines
C7_Witness ==
    /\ pc = "done" /\ RootFails
    /\ dirs = <<RootName, RootName>>
    /\ ChildrenOf(fs, RootName) # {}
    /\ Len(stdout) = 2 /\ Len(stderr) = 2

(***************************************************************************)
(* C8                                                                      *)
(***************************************************************************)
Ordered(items, Before(_, _)) ==
    \A a, b \in 1..Len(items) : a < b => Before(items[a], items[b])

SizeNonIncreasing(x, y) == x.Value >= y.Value
SizeNonDecreasing(x, y) == x.Value <= y.Value
NameAscending(x, y) == Compare(x.Key, y.Key) <= 0
NameDescending(x, y) == Compare(x.Key, y.Key) >= 0

\* C8: the printed order is non-increasing size with neither flag, ascending
\* name with -a, non-decreasing size with -r, descending name with -a -r.
C8_OrderByFlags ==
    pc = "print"
        => /\ (~sortByAlphabet /\ ~sortReverse) => Ordered(info, SizeNonIncreasing)
           /\ (sortByAlphabet /\ ~sortReverse) => Ordered(info, NameAscending)
           /\ (~sortByAlphabet /\ sortReverse) => Ordered(info, SizeNonDecreasing)
           /\ (sortByAlphabet /\ sortReverse) => Ordered(info, NameDescending)

(***************************************************************************)
(* C9                                                                      *)
(***************************************************************************)
\* where the item stood in the listing FolderSize returned
PlaceInListing(item) == CHOOSE k \in 1..Len(listing) : listing[k] = item

IsPermutationOf(out, in) ==
    /\ Len(out) = Len(in)
    /\ \E p \in Permutations(Len(in)) : out = [k \in 1..Len(in) |-> in[p[k]]]

\* C9 as stated: sorted by size, two items of equal size keep the relative
\* order they had in the listing.
C9_Stable ==
    (pc = "print" /\ ~sortByAlphabet)
        => \A a, b \in 1..Len(info) :
              (a < b /\ info[a].Value = info[b].Value)
                 => PlaceInListing(info[a]) < PlaceInListing(info[b])

\* C9: sorted by size, the output holds the items of the listing in
\* non-increasing size (non-decreasing with -r); sort.Sort is not stable, so
\* items of equal size come in either order.
C9_SortedBySize ==
    (pc = "print" /\ ~sortByAlphabet)
        => /\ IsPermutationOf(info, listing)
           /\ ~sortReverse => Ordered(info, SizeNonIncreasing)
           /\ sortReverse => Ordered(info, SizeNonDecreasing)

\* two items of equal size come out in the opposite order of the listing,
\* ahead of a smaller one that was listed first
C9_Witness ==
    /\ pc = "print" /\ ~sortByAlphabet /\ ~sortReverse
    /\ Len(info) = 3
    /\ info[1].Value = info[2].Value
    /\ info[2].Value > info[3].Value
    /\ listing = <<info[3], info[2], info[1]>>

(***************************************************************************)
(* C10                                                                     *)
(***************************************************************************)
Values(items) == [k \in 1..Len(items) |-> items[k].Value]

DistinctValues(items) ==
    \A a, b \in 1..Len(items) : items[a].Value = items[b].Value => a = b

\* C10 as stated: sorting the sorted output again with the same flags gives
\* the same sequence of items.
C10_Idempotent ==
    pc = "print" => SortOutcomes(sortByAlphabet, sortReverse, info) = {info}

\* C10: sorting the sorted output again with the same flags gives the same
\* sequence of items when the items are sorted by name, or by size and no
\* two items have the same size; sorted by size with equal sizes it gives
\* the same sequence of sizes, the items of equal size in any order.
C10_IdempotentUpToTies ==
    pc = "print"
        => \A again \in SortOutcomes(sortByAlphabet, sortReverse, info) :
              /\ sortByAlphabet => again = info
              /\ ~sortByAlphabet => /\ Values(again) = Values(info)
                                    /\ IsPermutationOf(again, info)
                                    /\ DistinctValues(info) => again = info

\* three items sorted by size, two of them equal: sorted again, the two can
\* change places and the sizes stay as they are
C10_Witness ==
    /\ pc = "print" /\ ~sortByAlphabet
    /\ Len(info) = 3
    /\ info # listing
    /\ \E again \in SortOutcomes(sortByAlphabet, sortReverse, info) :
          again # info /\ Values(again) = Values(info)

(***************************************************************************)
(* C14                                                                     *)
(***************************************************************************)
RECURSIVE SumValues(_, _)
SumValues(items, k) ==
    IF k > Len(items) THEN 0 ELSE items[k].Value + SumValues(items, k + 1)

\* C14: whenever FolderSize(path, true) returns a nil error, on any tree and
\* any mix of readable, unreadable and skipped children, the returned total
\* is the sum of the sizes of the returned items, the items are those of the
\* children that were counted, and a root that is a file gives one item
\* whose size is the total.
C14_TotalIsSumOfItems ==
    (Returned /\ err = "nil")
        => /\ size = SumValues(info, 1)
           /\ RootIsDir =>
                 \A c \in ChildrenOf(fs, RootName) :
                    c \in Keys(info) <=> ~IsSkipped(fs, c)
           /\ ~RootIsDir => info = <<Item(RootName, size, FALSE)>>

\* a counted directory, a counted file and a skipped child side by side
C14_Witness ==
    /\ Returned /\ err = "nil" /\ RootIsDir
    /\ Len(info) = 2
    /\ Cardinality(ChildrenOf(fs, RootName)) = 3
    /\ \E k \in 1..2 : info[k].IsDir
    /\ size = 1

(***************************************************************************)
(* DirSize: filepath.Walk and one goroutine for every entry                *)
(***************************************************************************)
\* the largest capacity of the tokens channel
MaxTokens == 2

\* main: n := runtime.NumCPU(); if n > 2 { n = n - 1 } else { n = 2 }
TokenCaps == 2..MaxTokens

\* string(filepath.Separator)
Separator == <<47>>

\* filepath.Join(path, k)
Join(path, k) == path \o Separator \o k

RECURSIVE PathOf(_, _)
\* the path filepath.Walk hands to its function for the node c
PathOf(t, c) == IF c = RootName THEN RootName ELSE Join(PathOf(t, t[c].parent), c)

RECURSIVE WalkBelow(_, _)
RECURSIVE WalkNames(_, _, _)
\* the nodes filepath.Walk visits among names[k..] and below them
WalkNames(t, names, k) ==
    IF k > Len(names) THEN <<>>
    ELSE <<names[k]>>
            \o (IF t[names[k]].kind = "dir" THEN WalkBelow(t, names[k]) ELSE <<>>)
            \o WalkNames(t, names, k + 1)

\* the nodes filepath.Walk visits below the directory d, in lexical order
WalkBelow(t, d) == WalkNames(t, ReadDir(t, d), 1)

\* as MatchesBucket, without the separator after the name of the bucket
MatchesBucketNoSeparator(file, path, k) == HasPrefix(file, Join(path, k))

\* strings.HasPrefix(file, filepath.Join(path, k)+string(filepath.Separator))
\*     || file == filepath.Join(path, k)
MatchesBucket(file, path, k) ==
    \/ HasPrefix(file, Join(path, k) \o Separator)
    \/ file = Join(path, k)

\* Item{Key, Value} of this variant
Item2(key, value) == [Key |-> key, Value |-> value]

Returns(total, items, error) == [size |-> total, info |-> items, err |-> error]

RECURSIVE SumOfMap(_, _)
SumOfMap(f, S) ==
    IF S = {} THEN 0
    ELSE LET k == CHOOSE x \in S : TRUE IN f[k] + SumOfMap(f, S \ {k})

\* bytes, err := ioutil.ReadFile(path); err == nil: path is a file
DirSizeFile ==
    /\ walkPc = "start"
    /\ fs[RootName].kind = "file" /\ fs[RootName].fault = "none"
    /\ ret' = Returns(fs[RootName].size,
                      <<Item2(RootName, fs[RootName].size)>>, "nil")
    /\ walkPc' = "returned"
    /\ UNCHANGED <<fs, mainVars, goVars, tokenCap, tokens, wg, walk, task,
                   sizes, overlap>>

\* files, err := ioutil.ReadDir(path); err != nil: "ReadDir Error"
DirSizeReadDirError ==
    /\ walkPc = "start"
    /\ ~(fs[RootName].kind = "file" /\ fs[RootName].fault = "none")
    /\ ~(fs[RootName].kind = "dir" /\ fs[RootName].fault = "none")
    /\ ret' = Returns(0, <<>>, "ReadDir Error")
    /\ walkPc' = "returned"
    /\ UNCHANGED <<fs, mainVars, goVars, tokenCap, tokens, wg, walk, task,
                   sizes, overlap>>

\* sizes[file.Name()] = 0 for every listed file, then filepath.Walk begins;
\* its function returns at once on the root itself
DirSizeBegin ==
    /\ walkPc = "start"
    /\ fs[RootName].kind = "dir" /\ fs[RootName].fault = "none"
    /\ sizes' = [k \in {c \in ChildrenOf(fs, RootName) : ~IsDotEntry(c)} |-> 0]
    /\ walk' = WalkBelow(fs, RootName)
    /\ walkPc' = "walk"
    /\ UNCHANGED <<fs, mainVars, goVars, tokenCap, tokens, wg, task, overlap, ret>>

\* as WalkSend, on a channel that never fills
WalkSendUnbounded ==
    /\ walkPc = "walk"
    /\ walk # <<>>
    /\ tokens' = tokens + 1
    /\ walkPc' = "spawn"
    /\ UNCHANGED <<fs, mainVars, goVars, tokenCap, wg, walk, task, sizes,
                   overlap, ret>>

\* tokens <- 1: blocks while the channel is full
WalkSend ==
    /\ walkPc = "walk"
    /\ walk # <<>>
    /\ tokens < tokenCap
    /\ tokens' = tokens + 1
    /\ walkPc' = "spawn"
    /\ UNCHANGED <<fs, mainVars, goVars, tokenCap, wg, walk, task, sizes,
                   overlap, ret>>

\* wg.Add(1); go func() { ... }(); return nil
WalkSpawn ==
    /\ walkPc = "spawn"
    /\ wg' = wg + 1
    /\ task' = Append(task, [file |-> Head(walk), pc |-> "range",
                             k |-> <<>>, tmp |-> 0])
    /\ walk' = Tail(walk)
    /\ walkPc' = "walk"
    /\ UNCHANGED <<fs, mainVars, goVars, tokenCap, tokens, sizes, overlap, ret>>

\* filepath.Walk has visited every entry and returns nil
WalkReturn ==
    /\ walkPc = "walk"
    /\ walk = <<>>
    /\ walkPc' = "wait"
    /\ UNCHANGED <<fs, mainVars, goVars, tokenCap, tokens, wg, walk, task,
                   sizes, overlap, ret>>

\* the process is alive
Alive == walkPc # "fatal"

\* for k, _ := range sizes { if <k matches file> { ... the read of sizes[k]
\* in "sizes[k] += ..."; the map is ranged over in any order
TaskRead(t) ==
    /\ Alive
    /\ task[t].pc = "range"
    /\ \E k \in DOMAIN sizes :
          /\ MatchesBucket(PathOf(fs, task[t].file), RootName, k)
          /\ task' = [task EXCEPT ![t].pc = "add", ![t].k = k, ![t].tmp = sizes[k]]
    /\ UNCHANGED <<fs, mainVars, goVars, tokenCap, tokens, wg, walk, walkPc,
                   sizes, overlap, ret>>

\* ... the write of sizes[k] in "sizes[k] += float64(fileinfo.Size())"; break
TaskWrite(t) ==
    /\ Alive
    /\ task[t].pc = "add"
    /\ sizes' = [sizes EXCEPT ![task[t].k] = task[t].tmp + fs[task[t].file].size]
    /\ overlap' = IF sizes[task[t].k] # task[t].tmp
                  THEN overlap \cup {task[t].k} ELSE overlap
    /\ task' = [task EXCEPT ![t].pc = "done"]
    /\ UNCHANGED <<fs, mainVars, goVars, tokenCap, tokens, wg, walk, walkPc, ret>>

\* wg.Done()
TaskDone(t) ==
    /\ Alive
    /\ task[t].pc = "done"
    /\ wg' = wg - 1
    /\ task' = [task EXCEPT ![t].pc = "release"]
    /\ UNCHANGED <<fs, mainVars, goVars, tokenCap, tokens, walk, walkPc,
                   sizes, overlap, ret>>

\* <-tokens
TaskRelease(t) ==
    /\ Alive
    /\ task[t].pc = "release"
    /\ tokens' = tokens - 1
    /\ task' = [task EXCEPT ![t].pc = "exit"]
    /\ UNCHANGED <<fs, mainVars, goVars, tokenCap, wg, walk, walkPc, sizes,
                   overlap, ret>>

\* two goroutines are inside "sizes[k] += ..." on the one map, which no lock
\* guards: the runtime may stop the process, "concurrent map writes", and
\* with it the walker, every goroutine and the channel
Throw ==
    /\ Alive
    /\ \E t, u \in 1..Len(task) : t # u /\ task[t].pc = "add" /\ task[u].pc = "add"
    /\ walkPc' = "fatal"
    /\ tokens' = 0
    /\ wg' = 0
    /\ walk' = <<>>
    /\ task' = <<>>
    /\ UNCHANGED <<fs, mainVars, goVars, tokenCap, sizes, overlap, ret>>

\* wg.Wait() returns; for k, v := range sizes { info = append(info,
\* Item{k, v}); size += v }, the map ranged over in any order
Collect ==
    /\ walkPc = "wait"
    /\ wg = 0
    /\ \E order \in {q \in [1..Cardinality(DOMAIN sizes) -> DOMAIN sizes] :
                       \A a, b \in DOMAIN q : q[a] = q[b] => a = b} :
          ret' = Returns(SumOfMap(sizes, DOMAIN sizes),
                         [j \in DOMAIN order |-> Item2(order[j], sizes[order[j]])],
                         "nil")
    /\ walkPc' = "returned"
    /\ UNCHANGED <<fs, mainVars, goVars, tokenCap, tokens, wg, walk, task,
                   sizes, overlap>>

NextDS ==
    \/ DirSizeFile
    \/ DirSizeReadDirError
    \/ DirSizeBegin
    \/ WalkSend
    \/ WalkSpawn
    \/ WalkReturn
    \/ \E t \in 1..Len(task) : TaskRead(t)
    \/ \E t \in 1..Len(task) : TaskWrite(t)
    \/ \E t \in 1..Len(task) : TaskDone(t)
    \/ \E t \in 1..Len(task) : TaskRelease(t)
    \/ Throw
    \/ Collect

\* what filepath.Walk meets below the root: files and directories, each with
\* the size its FileInfo reports
WalkAttrs == [kind : {"dir", "file"}, size : Sizes, fault : {"none"}]

\* main calls DirSize(arg, n) on the root
InitDS ==
    /\ fs \in Trees(WalkAttrs, MainRootAttrs)
    /\ sortByAlphabet = FALSE
    /\ sortReverse = FALSE
    /\ dirs = <<RootName>>
    /\ pc = "loop"
    /\ MainLocals
    /\ GoIdle
    /\ tokenCap \in TokenCaps
    /\ tokens = 0
    /\ wg = 0
    /\ walk = <<>>
    /\ walkPc = "start"
    /\ task = <<>>
    /\ sizes = <<>>
    /\ overlap = {}
    /\ ret = <<>>

SpecDS == InitDS /\ [][NextDS]_vars

(***************************************************************************)
(* FolderSize(dirname, msg, firstLevel): a goroutine for every             *)
(* subdirectory of the first level, results sent over channels             *)
(***************************************************************************)
\* msg := make(chan DirSizeInfo, 1)
MsgCap == 1

\* as Capacity, one place short
CapacityOneLess(nDirs) == nDirs - 1

\* c := make(chan DirSizeInfo, n), n := len(dirs)
Capacity(nDirs) == nDirs

\* a nil error
NilErr == <<>>

\* errors.New("ReadDir Error: " + dirname)
ReadDirError(path) == <<"ReadDir Error: ", path>>

\* DirSizeInfo{Name, Size, Info, Err}
DirSizeInfo(name, total, items, error) ==
    [Name |-> name, Size |-> total, Info |-> items, Err |-> error]

\* the locals of an invocation: pc, size, info, dirs, the index k of the
\* range over dirs, the index i of the receive loop, the DirSizeInfo it is
\* about to send, and the number of sends it has made
NewCall ==
    [pc |-> "start", size |-> 0, info |-> <<>>, dirs |-> <<>>, k |-> 1, i |-> 0,
     pending |-> <<>>, sent |-> 0]

FirstLevel(d) == d = RootName

\* the map f with the entry x -> v added
With(f, x, v) == [y \in DOMAIN f \cup {x} |-> IF y = x THEN v ELSE f[y]]

\* the items of the files among names[k..]
RECURSIVE FileItems(_, _, _)
FileItems(t, names, k) ==
    IF k > Len(names) THEN <<>>
    ELSE (IF t[names[k]].kind # "dir" /\ ~IsDotEntry(names[k])
          THEN <<Item2(names[k], t[names[k]].size)>> ELSE <<>>)
         \o FileItems(t, names, k + 1)

\* dirs, of the listing names
SubDirs(t, names) ==
    SelectSeq(names, LAMBDA c : t[c].kind = "dir" /\ ~IsDotEntry(c))

\* bytes, err := ioutil.ReadFile(dirname); err == nil
GoReadFile(d) ==
    /\ call[d].pc = "start"
    /\ fs[d].kind = "file" /\ fs[d].fault = "none"
    /\ call' = [call EXCEPT
          ![d].pc = "send",
          ![d].pending =
              DirSizeInfo(PathOf(fs, d), fs[d].size,
                          IF FirstLevel(d)
                          THEN <<Item2(PathOf(fs, d), fs[d].size)>> ELSE <<>>,
                          NilErr)]
    /\ UNCHANGED <<fs, mainVars, dsVars, chan, msg, received>>

\* files, err := ioutil.ReadDir(dirname); err != nil
GoReadDirError(d) ==
    /\ call[d].pc = "start"
    /\ ~(fs[d].kind = "file" /\ fs[d].fault = "none")
    /\ ~(fs[d].kind = "dir" /\ fs[d].fault = "none")
    /\ call' = [call EXCEPT
          ![d].pc = "send",
          ![d].pending = DirSizeInfo(PathOf(fs, d), 0, <<>>,
                                     ReadDirError(PathOf(fs, d)))]
    /\ UNCHANGED <<fs, mainVars, dsVars, chan, msg, received>>

\* the range over files: files are summed (and listed at the first level),
\* directories kept for later; then n := len(dirs); c := make(chan, n)
GoReadDir(d) ==
    /\ call[d].pc = "start"
    /\ fs[d].kind = "dir" /\ fs[d].fault = "none"
    /\ LET names == ReadDir(fs, d)
           items == FileItems(fs, names, 1)
       IN call' = [call EXCEPT
             ![d].pc = IF SubDirs(fs, names) = <<>> THEN "recv" ELSE "spawn",
             ![d].size = SumValues(items, 1),
             ![d].info = IF FirstLevel(d) THEN items ELSE <<>>,
             ![d].dirs = SubDirs(fs, names)]
    /\ chan' = With(chan, d, <<>>)
    /\ UNCHANGED <<fs, mainVars, dsVars, msg, received>>

\* firstLevel: go FolderSize(filepath.Join(dirname, dir.Name()), c, false)
GoSpawn(d) ==
    /\ call[d].pc = "spawn"
    /\ FirstLevel(d)
    /\ call' = With([call EXCEPT
                        ![d].k = @ + 1,
                        ![d].pc = IF call[d].k = Len(call[d].dirs)
                                  THEN "recv" ELSE "spawn"],
                    call[d].dirs[call[d].k], NewCall)
    /\ UNCHANGED <<fs, mainVars, dsVars, chan, msg, received>>

\* else: FolderSize(filepath.Join(dirname, dir.Name()), c, false), in the
\* caller's goroutine
GoCall(d) ==
    /\ call[d].pc = "spawn"
    /\ ~FirstLevel(d)
    /\ call' = With([call EXCEPT ![d].pc = "calling"],
                    call[d].dirs[call[d].k], NewCall)
    /\ UNCHANGED <<fs, mainVars, dsVars, chan, msg, received>>

\* the call of GoCall returns
GoCallReturns(d) ==
    /\ call[d].pc = "calling"
    /\ call[call[d].dirs[call[d].k]].pc = "done"
    /\ call' = [call EXCEPT
                   ![d].k = @ + 1,
                   ![d].pc = IF call[d].k = Len(call[d].dirs) THEN "recv" ELSE "spawn"]
    /\ UNCHANGED <<fs, mainVars, dsVars, chan, msg, received>>

\* m := <-c with m.Err == nil: size += m.Size, and at the first level
\* info = append(info, Item{m.Name, m.Size})
GoReceive(d) ==
    /\ call[d].pc = "recv"
    /\ call[d].i < Len(call[d].dirs)
    /\ chan[d] # <<>>
    /\ Head(chan[d]).Err = NilErr
    /\ call' = [call EXCEPT
          ![d].i = @ + 1,
          ![d].size = @ + Head(chan[d]).Size,
          ![d].info = IF FirstLevel(d)
                      THEN Append(@, Item2(Head(chan[d]).Name, Head(chan[d]).Size))
                      ELSE @]
    /\ chan' = [chan EXCEPT ![d] = Tail(@)]
    /\ UNCHANGED <<fs, mainVars, dsVars, msg, received>>

\* m := <-c with m.Err != nil: the error is passed on and the loop is left
GoReceiveError(d) ==
    /\ call[d].pc = "recv"
    /\ call[d].i < Len(call[d].dirs)
    /\ chan[d] # <<>>
    /\ Head(chan[d]).Err # NilErr
    /\ call' = [call EXCEPT
          ![d].pc = "send",
          ![d].pending = DirSizeInfo(PathOf(fs, d), 0, <<>>, Head(chan[d]).Err)]
    /\ chan' = [chan EXCEPT ![d] = Tail(@)]
    /\ UNCHANGED <<fs, mainVars, dsVars, msg, received>>

\* the receive loop has run n times
GoLoopDone(d) ==
    /\ call[d].pc = "recv"
    /\ call[d].i = Len(call[d].dirs)
    /\ call' = [call EXCEPT
          ![d].pc = "send",
          ![d].pending = DirSizeInfo(PathOf(fs, d), call[d].size, call[d].info, NilErr)]
    /\ UNCHANGED <<fs, mainVars, dsVars, chan, msg, received>>

\* the channel the invocation sends on holds fewer messages than its capacity
HasSpace(d) ==
    IF FirstLevel(d) THEN Len(msg) < MsgCap
    ELSE Len(chan[fs[d].parent]) < Capacity(Len(call[fs[d].parent].dirs))

\* msg <- DirSizeInfo{...}; return: the send waits for space in the buffer
GoSend(d) ==
    /\ call[d].pc = "send"
    /\ HasSpace(d)
    /\ IF FirstLevel(d)
       THEN msg' = Append(msg, call[d].pending) /\ chan' = chan
       ELSE chan' = [chan EXCEPT ![fs[d].parent] = Append(@, call[d].pending)]
            /\ msg' = msg
    /\ call' = [call EXCEPT ![d].pc = "done", ![d].sent = @ + 1]
    /\ UNCHANGED <<fs, mainVars, dsVars, received>>

\* main: FolderSize(arg, msg, true) has returned; m := <-msg
MainReceive ==
    /\ RootName \in DOMAIN call
    /\ call[RootName].pc = "done"
    /\ received = <<>>
    /\ msg # <<>>
    /\ received' = <<Head(msg)>>
    /\ msg' = Tail(msg)
    /\ UNCHANGED <<fs, mainVars, dsVars, call, chan>>

\* the steps of the invocation on d
GoStep(d) ==
    \/ GoReadFile(d)
    \/ GoReadDirError(d)
    \/ GoReadDir(d)
    \/ GoSpawn(d)
    \/ GoCall(d)
    \/ GoCallReturns(d)
    \/ GoReceive(d)
    \/ GoReceiveError(d)
    \/ GoLoopDone(d)
    \/ GoSend(d)

NextGo ==
    \/ \E d \in DOMAIN call : GoReadFile(d)
    \/ \E d \in DOMAIN call : GoReadDirError(d)
    \/ \E d \in DOMAIN call : GoReadDir(d)
    \/ \E d \in DOMAIN call : GoSpawn(d)
    \/ \E d \in DOMAIN call : GoCall(d)
    \/ \E d \in DOMAIN call : GoCallReturns(d)
    \/ \E d \in DOMAIN call : GoReceive(d)
    \/ \E d \in DOMAIN call : GoReceiveError(d)
    \/ \E d \in DOMAIN call : GoLoopDone(d)
    \/ \E d \in DOMAIN call : GoSend(d)
    \/ MainReceive

\* what FolderSize meets: files, and directories that list or fail to list
GoAttrs ==
    {at \in DirAttrs \cup FileAttrs : at.fault \in {"none", "list"} /\
                                     (at.kind = "file" => at.fault = "none")}

\* main has made msg and calls FolderSize(arg, msg, true)
InitGo ==
    /\ fs \in Trees(GoAttrs, MainRootAttrs)
    /\ sortByAlphabet = FALSE
    /\ sortReverse = FALSE
    /\ dirs = <<RootName>>
    /\ pc = "loop"
    /\ MainLocals
    /\ DirSizeIdle
    /\ call = [d \in {RootName} |-> NewCall]
    /\ chan = <<>>
    /\ msg = <<>>
    /\ received = <<>>

\* every goroutine that can take a step is scheduled in the end, and so is
\* main; a send or a receive that waits on a channel is not such a step
FairGo ==
    /\ WF_vars(MainReceive)
    /\ \A d \in {RootName} \cup ChildNames :
          WF_vars(d \in DOMAIN call /\ GoStep(d))

SpecGo == InitGo /\ [][NextGo]_vars /\ FairGo

(***************************************************************************)
(* C11                                                                     *)
(***************************************************************************)
DirSizeReturned == walkPc = "returned" /\ ret.err = "nil" /\ RootIsDir

\* the entries DirSize attributes to the bucket k: k and all below it
AttributedTo(k) == {k} \cup {c \in DOMAIN fs : IsBelow(fs, c, k)}

\* C11: the tasks of DirSize update sizes[k] by a read and a later write
\* that nothing guards.  When DirSize has returned, no bucket total is
\* larger than the sum of the sizes of the entries attributed to it, the
\* returned total is the sum of the bucket totals, and a bucket total is
\* smaller than that sum only where a task wrote a total it had read before
\* another task's write: the loss is the race's and nothing else's.  That
\* such a loss is reached with n >= 2 is C11_Witness.
C11_LostUpdateByOverlap ==
    DirSizeReturned
        => /\ DOMAIN sizes = {c \in ChildrenOf(fs, RootName) : ~IsDotEntry(c)}
           /\ \A k \in DOMAIN sizes :
                 /\ sizes[k] <= SumSizes(fs, AttributedTo(k))
                 /\ sizes[k] < SumSizes(fs, AttributedTo(k)) => k \in overlap
           /\ ret.size = SumOfMap(sizes, DOMAIN sizes)
           /\ ret.size <= SumSizes(fs, DOMAIN fs \ {RootName})

\* two tasks of one bucket overlapped and after wg.Wait() the bucket total
\* and the returned total are too small
C11_Witness ==
    /\ DirSizeReturned
    /\ tokenCap >= 2
    /\ \E k \in overlap : sizes[k] < SumSizes(fs, AttributedTo(k))
    /\ ret.size < SumSizes(fs, DOMAIN fs \ {RootName})
    /\ \A t \in 1..Len(task) : task[t].pc = "exit"

(***************************************************************************)
(* C12                                                                     *)
(***************************************************************************)
\* the spawned tasks that have not yet released their token
InFlight == {t \in 1..Len(task) : task[t].pc # "exit"}

\* the tasks that have finished "sizes[k] += ..."
Updated == {t \in 1..Len(task) : task[t].pc \in {"done", "release", "exit"}}

\* C12: at every moment at most n spawned tasks have not released their
\* token; the tokens in the channel are those of the tasks in flight and the
\* one of the task the walker is about to spawn; while n are in flight the
\* walker stands before its send with the channel full; the WaitGroup counts
\* the tasks that have not called Done; and when DirSize has read the bucket
\* totals every entry of the walk has a task and every task has finished its
\* update.
C12_TasksBounded ==
    /\ Cardinality(InFlight) <= tokenCap
    /\ tokens <= tokenCap
    /\ tokens = Cardinality(InFlight) + (IF walkPc = "spawn" THEN 1 ELSE 0)
    /\ Cardinality(InFlight) = tokenCap => (walkPc # "spawn" /\ tokens = tokenCap)
    /\ wg = Cardinality({t \in 1..Len(task) : task[t].pc \in {"range", "add", "done"}})
    /\ DirSizeReturned
          => /\ Len(task) = Len(WalkBelow(fs, RootName))
             /\ \A t \in 1..Len(task) : task[t].pc \in {"release", "exit"}

\* n tasks are in flight and the walker, with an entry to go, is blocked
C12_Witness ==
    /\ walkPc = "walk"
    /\ walk # <<>>
    /\ Cardinality(InFlight) = tokenCap
    /\ tokens = tokenCap
    /\ Updated = {}

(***************************************************************************)
(* C13                                                                     *)
(***************************************************************************)
\* every invocation that was started has returned
AllReturned == \A d \in DOMAIN call : call[d].pc = "done"

\* an invocation has sent once when it has returned and not before, no
\* channel holds more than its capacity, and an invocation that stands at
\* its send finds space in the buffer
OneSendWithSpace ==
    /\ \A d \in DOMAIN call :
          /\ call[d].sent = (IF call[d].pc = "done" THEN 1 ELSE 0)
          /\ call[d].pc = "send" => HasSpace(d)
    /\ Len(msg) <= MsgCap
    /\ \A d \in DOMAIN chan : Len(chan[d]) <= Len(call[d].dirs)

\* C13: on every tree every invocation of FolderSize sends exactly one
\* DirSizeInfo on its msg on every path (file, listing error, child error,
\* success), each send finds space in the buffer, the receive in main
\* completes in the end, and in the end every invocation that was started
\* has returned, also when a parent left its channel undrained after a
\* child's error.
C13_OneSendNeverBlocks ==
    /\ []OneSendWithSpace
    /\ <>(received # <<>>)
    /\ <>[]AllReturned

\* main has received the error of a child of the root, a message of another
\* child lies undrained in the root's channel, and every goroutine has
\* returned
C13_Witness ==
    /\ received # <<>>
    /\ received[1].Err # NilErr
    /\ AllReturned
    /\ RootName \in DOMAIN chan
    /\ chan[RootName] # <<>>
    /\ Cardinality(DOMAIN call) >= 3

====
